---- MODULE Spec2Model ----
(***************************************************************************)
(* Model of the image I/O dispatch layer of libcvd, cvd/image_io.h:        *)
(* img_load (stream and path form), img_save (stream, path+format and      *)
(* path-only form), the legacy pnm_load / pnm_save wrappers and the        *)
(* Internal::save_default compile-time policy.                             *)
(*                                                                         *)
(* Streams are records [kind, is_open, buf, pos, state]: buf is the byte   *)
(* content, pos the number of bytes already consumed, state the set of     *)
(* std::ios error bits that are set.  Bytes and characters are their codes.*)
(* The format codecs (PNM::readPNM, BMP::writeBMP, ...) live outside this  *)
(* header; they are modelled by codecRead / codecWrite.                    *)
(***************************************************************************)
EXTENDS Integers, Sequences, FiniteSets, TLC

VARIABLES
    haveJPEG,    \* CVD_IMAGE_HAVE_JPEG is defined in this build
    haveTIFF,    \* CVD_IMAGE_HAVE_TIFF is defined in this build
    strm,        \* the caller's stream object
    name,        \* the caller's file name
    im,          \* the caller's image
    call,        \* the last call made: entry point and arguments at entry
    result,      \* how the last call ended
    log,         \* the codec invocations of the last call, in order
    saved,       \* history: the encodings completely written to strm
    pixelType,   \* the pixel type save_default is instantiated with
    use_16bit    \* Internal::save_default<pixelType>::use_16bit, once
                 \* the template is instantiated

vars == <<haveJPEG, haveTIFF, strm, name, im, call, result, log, saved,
          pixelType, use_16bit>>

----------------------------------------------------------------------------
(* Bounds of the model *)

MaxJunkLen == 2
MaxNameLen == 4
MaxBufLen == 6
MaxBitsUsed == 16

----------------------------------------------------------------------------
(* Bytes the dispatch compares against *)

CharP == 80
JpegMarker == 255
CharI == 73
CharB == 66
CharDot == 46
TraitsEof == 0 - 1

\* (unsigned char) conversion of the int that peek() returns
toUnsignedChar(c) == c % 256

Formats == {"PNM", "PS", "EPS", "BMP", "JPEG"}
\* the images of the model: the empty image and the one-pixel images
Pixels == {0, 1}
Images == {<<>>, <<0>>, <<1>>}

\* bytes used for arbitrary stream content: the four sniffed bytes, '%',
\* NUL and 'b'
SampleBytes == {0, 37, CharB, CharI, CharP, 98, JpegMarker}

SeqsUpTo(S, n) == UNION {[1..k -> S] : k \in 0..n}

----------------------------------------------------------------------------
(* std::ios state *)

good(s) == s.state = {}

setstate(s, bits) == [s EXCEPT !.state = s.state \cup bits]

Unread(s) == SubSeq(s.buf, s.pos + 1, Len(s.buf))

\* std::istream::peek(): the next byte without extracting it; traits::eof()
\* and eofbit when there is none; failbit when the sentry fails
\* fault variant of peek: get() in place of peek()
mutPeekConsumes(s) ==
    IF ~good(s) THEN [c |-> TraitsEof, s |-> setstate(s, {"failbit"})]
    ELSE IF s.pos < Len(s.buf)
         THEN [c |-> s.buf[s.pos + 1], s |-> [s EXCEPT !.pos = s.pos + 1]]
         ELSE [c |-> TraitsEof, s |-> setstate(s, {"eofbit"})]
peek(s) ==
    IF ~good(s) THEN [c |-> TraitsEof, s |-> setstate(s, {"failbit"})]
    ELSE IF s.pos < Len(s.buf)
         THEN [c |-> s.buf[s.pos + 1], s |-> s]
         ELSE [c |-> TraitsEof, s |-> setstate(s, {"eofbit"})]

----------------------------------------------------------------------------
(* The codecs: external collaborators.  An encoding is a lead byte, a byte *)
(* naming the format, the pixel count and the pixels.                      *)

FormatByte(f) ==
    CASE f = "PNM" -> 53 [] f = "BMP" -> 77 [] f = "JPEG" -> 216
      [] f = "TIFF" -> 42 [] f = "PS" -> 33 [] f = "EPS" -> 34

\* the first byte a writer may emit: the format's magic, where the format
\* has one the loader sniffs.  Bare PostScript has none: its first byte may
\* be one the loader does not know ('%') or one it does ('P', 'B').
PsLeadBytes == {37, CharP, CharB}

LeadBytes(f) ==
    CASE f = "PNM" -> {CharP} [] f = "BMP" -> {CharB}
      [] f = "JPEG" -> {JpegMarker} [] f = "TIFF" -> {CharI}
      [] f = "EPS" -> {37} [] f = "PS" -> PsLeadBytes

Encoding(f, img, lead) == <<lead, FormatByte(f), Len(img)>> \o img

WellFormed(f, bytes) ==
    /\ Len(bytes) >= 3
    /\ bytes[1] \in LeadBytes(f)
    /\ bytes[2] = FormatByte(f)
    /\ bytes[3] \in {Len(i) : i \in Images}
    /\ Len(bytes) >= 3 + bytes[3]
    /\ \A k \in 1..bytes[3] : bytes[3 + k] \in Pixels

NoException == [type |-> "none"]

CodecException(f, why) == [type |-> "CodecException", detail |-> why]

\* decode of format f from stream s: the image and the stream after it, or
\* the codec's exception
codecRead(f, img, s) ==
    LET bytes == Unread(s) IN
    IF WellFormed(f, bytes)
    THEN [s   |-> [s EXCEPT !.pos = s.pos + 3 + bytes[3]],
          im  |-> SubSeq(bytes, 4, 3 + bytes[3]),
          exc |-> NoException]
    ELSE [s   |-> setstate([s EXCEPT !.pos = Len(s.buf)], {"eofbit", "failbit"}),
          im  |-> img,
          exc |-> CodecException(f, "malformed")]

----------------------------------------------------------------------------
(* Outcomes of a call *)

Returned == [status |-> "returned"]
Threw(e) == [status |-> "threw", exc |-> e]

IfstreamNotOpen == [type |-> "IfstreamNotOpen"]
EofBeforeImage == [type |-> "EofBeforeImage"]
UnsupportedImageType == [type |-> "UnsupportedImageType"]
OpenError(path, why, code) ==
    [type |-> "OpenError", path |-> path, why |-> why, code |-> code]

\* one codec invocation: the codec, the stream position it was entered at,
\* the exception it raised
Invocation(f, op, s, e) == [codec |-> f, op |-> op, pos |-> s.pos, exc |-> e]

----------------------------------------------------------------------------
(* img_load(Image<I>&, std::istream&) *)

\* the if / else-if chain on the peeked byte: the reader to call, or
\* "none" when the chain falls through to the throw
\* fault variant of sniff: the 'B' branch is missing
mutSniffNoBMP(c, jpeg, tiff) ==
    IF c = CharP THEN "PNM"
    ELSE IF jpeg /\ c = JpegMarker THEN "JPEG"
    ELSE IF tiff /\ c = CharI THEN "TIFF"
    ELSE "none"
\* fault variant of sniff: 'b' is taken for BMP too
mutSniffLowerB(c, jpeg, tiff) ==
    IF c = CharP THEN "PNM"
    ELSE IF jpeg /\ c = JpegMarker THEN "JPEG"
    ELSE IF tiff /\ c = CharI THEN "TIFF"
    ELSE IF c = CharB \/ c = 98 THEN "BMP"
    ELSE "none"
sniff(c, jpeg, tiff) ==
    IF c = CharP THEN "PNM"
    ELSE IF jpeg /\ c = JpegMarker THEN "JPEG"
    ELSE IF tiff /\ c = CharI THEN "TIFF"
    ELSE IF c = CharB THEN "BMP"
    ELSE "none"

\* the exception of the first readiness test
\* fault variant of NotReadyException: no dynamic_cast / is_open test
mutNotReadyAlwaysNotOpen(s) == IfstreamNotOpen
NotReadyException(s) ==
    IF s.kind = "ifstream" /\ ~s.is_open
    THEN IfstreamNotOpen
    ELSE EofBeforeImage

\* the call of the chosen reader; its exception passes through img_load,
\* which has no handler
\* fault variant of readWith: the reader's exception is caught and replaced
mutReadConverts(f, img, s) ==
    LET r == codecRead(f, img, s) IN
    [s   |-> r.s,
     im  |-> r.im,
     res |-> IF r.exc = NoException THEN Returned ELSE Threw(UnsupportedImageType),
     log |-> <<Invocation(f, "read", s, r.exc)>>]
readWith(f, img, s) ==
    LET r == codecRead(f, img, s) IN
    [s   |-> r.s,
     im  |-> r.im,
     res |-> IF r.exc = NoException THEN Returned ELSE Threw(r.exc),
     log |-> <<Invocation(f, "read", s, r.exc)>>]

Fails(img, s, e) == [s |-> s, im |-> img, res |-> Threw(e), log |-> <<>>]

\* the part of img_load after the first readiness test
\* fault variant of peekAndDispatch: no readiness test after the peek
mutLoadNoSecondCheck(img, s, jpeg, tiff) ==
    LET p == peek(s)
        c == toUnsignedChar(p.c)
        f == sniff(c, jpeg, tiff) IN
    IF f = "none" THEN Fails(img, p.s, UnsupportedImageType)
    ELSE readWith(f, img, p.s)
peekAndDispatch(img, s, jpeg, tiff) ==
    LET p == peek(s)
        c == toUnsignedChar(p.c)
        f == sniff(c, jpeg, tiff) IN
    IF ~good(p.s) THEN Fails(img, p.s, EofBeforeImage)
    ELSE IF f = "none" THEN Fails(img, p.s, UnsupportedImageType)
    ELSE readWith(f, img, p.s)

img_load(img, s, jpeg, tiff) ==
    IF ~good(s) THEN Fails(img, s, NotReadyException(s))
    ELSE peekAndDispatch(img, s, jpeg, tiff)

\* img_load(Image<I>&, const std::string&): the stream is a local ifstream
\* on the named file; canOpen, code and content are the file system's answer
FileStream(kind, content) ==
    [kind |-> kind, is_open |-> TRUE, buf |-> content, pos |-> 0, state |-> {}]

img_load_path(img, path, canOpen, code, content, jpeg, tiff) ==
    IF ~canOpen
    THEN [im |-> img, res |-> Threw(OpenError(path, "for reading", code)),
          log |-> <<>>]
    ELSE LET r == img_load(img, FileStream("ifstream", content), jpeg, tiff) IN
         [im |-> r.im, res |-> r.res, log |-> r.log]

----------------------------------------------------------------------------
(* img_save *)

\* encode of img as format f onto stream o.  The writer is given its lead
\* byte; it either completes, or throws after `written` bytes.  Nothing
\* reaches a stream that is not good.
codecWrite(f, img, o, lead, throws, written) ==
    LET enc == Encoding(f, img, lead)
        n   == IF ~good(o) THEN 0
               ELSE IF throws THEN written
               ELSE Len(enc)
        o2  == [o EXCEPT !.buf = o.buf \o SubSeq(enc, 1, n)] IN
    [s   |-> IF throws THEN setstate(o2, {"badbit"}) ELSE o2,
     exc |-> IF throws THEN CodecException(f, "unwritable") ELSE NoException,
     complete |-> n = Len(enc)]

writeWith(f, img, o, lead, throws, written) ==
    LET w == codecWrite(f, img, o, lead, throws, written) IN
    [s   |-> w.s,
     res |-> IF w.exc = NoException THEN Returned ELSE Threw(w.exc),
     log |-> <<Invocation(f, "write", o, w.exc)>>,
     complete |-> w.complete]

\* img_save(const BasicImage<PixelType>&, std::ostream&, ImageType): the
\* switch, each case ending in break
\* fault variant of img_save: a case without its break
mutSaveFallsThrough(img, o, t, lead, throws, written) ==
    LET w == writeWith(t, img, o, lead, throws, written)
        v == writeWith("BMP", img, w.s, CharB, throws, written) IN
    IF t = "BMP" \/ w.res # Returned THEN w
    ELSE [s |-> v.s, res |-> v.res, log |-> w.log \o v.log,
          complete |-> w.complete]
img_save(img, o, t, lead, throws, written) ==
    CASE t = "PNM"  -> writeWith("PNM", img, o, lead, throws, written)
      [] t = "JPEG" -> writeWith("JPEG", img, o, lead, throws, written)
      [] t = "PS"   -> writeWith("PS", img, o, lead, throws, written)
      [] t = "EPS"  -> writeWith("EPS", img, o, lead, throws, written)
      [] t = "BMP"  -> writeWith("BMP", img, o, lead, throws, written)

\* img_save(const BasicImage<PixelType>&, const std::string&, ImageType):
\* the stream is a local ofstream on the named file
\* fault variant of img_save_path: the message of the loader
mutSavePathReadMode(img, path, t, canOpen, code, lead, throws, written) ==
    IF ~canOpen
    THEN [res |-> Threw(OpenError(path, "for reading", code)), log |-> <<>>]
    ELSE LET r == img_save(img, FileStream("ofstream", <<>>), t,
                           lead, throws, written) IN
         [res |-> r.res, log |-> r.log]
img_save_path(img, path, t, canOpen, code, lead, throws, written) ==
    IF ~canOpen
    THEN [res |-> Threw(OpenError(path, "for writing", code)), log |-> <<>>]
    ELSE LET r == img_save(img, FileStream("ofstream", <<>>), t,
                           lead, throws, written) IN
         [res |-> r.res, log |-> r.log]

\* std::string::rfind(c): the 0-based index of the last c, or npos
Npos == 0 - 1
rfind(str, c) ==
    LET hits == {k \in 1..Len(str) : str[k] = c} IN
    IF hits = {} THEN Npos
    ELSE (CHOOSE k \in hits : \A j \in hits : j <= k) - 1

\* std::string::substr(pos, n), pos <= length
substr(str, pos, n) ==
    LET m == IF n < Len(str) - pos THEN n ELSE Len(str) - pos IN
    SubSeq(str, pos + 1, pos + m)

\* tolower in the C locale
tolower(c) == IF c >= 65 /\ c <= 90 THEN c + 32 ELSE c

lowered(str) == [k \in 1..Len(str) |-> tolower(str[k])]

\* the suffix literals "jpg", "ps", "eps", "bmp"
SuffixJpg == <<106, 112, 103>>
SuffixPs == <<112, 115>>
SuffixEps == <<101, 112, 115>>
SuffixBmp == <<98, 109, 112>>

\* the format img_save(im, name) passes on
\* fault variant of formatOfName: the suffix is not lower-cased
mutResolveCaseSensitive(str) ==
    LET dot == rfind(str, CharDot) IN
    IF dot = Npos THEN "PNM"
    ELSE LET suffix == substr(str, dot + 1, Len(str) - dot - 1) IN
         IF suffix = SuffixJpg THEN "JPEG"
         ELSE IF suffix = SuffixPs THEN "PS"
         ELSE IF suffix = SuffixEps THEN "EPS"
         ELSE IF suffix = SuffixBmp THEN "BMP"
         ELSE "PNM"
formatOfName(str) ==
    LET dot == rfind(str, CharDot) IN
    IF dot = Npos THEN "PNM"
    ELSE LET suffix == lowered(substr(str, dot + 1, Len(str) - dot - 1)) IN
         IF suffix = SuffixJpg THEN "JPEG"
         ELSE IF suffix = SuffixPs THEN "PS"
         ELSE IF suffix = SuffixEps THEN "EPS"
         ELSE IF suffix = SuffixBmp THEN "BMP"
         ELSE "PNM"

\* img_save(const BasicImage<PixelType>&, const std::string&)
img_save_name(img, path, canOpen, code, lead, throws, written) ==
    img_save_path(img, path, formatOfName(path), canOpen, code,
                  lead, throws, written)

\* the deprecated wrappers
pnm_save(img, o, lead, throws, written) ==
    img_save(img, o, "PNM", lead, throws, written)

pnm_load(img, s, jpeg, tiff) == img_load(img, s, jpeg, tiff)

----------------------------------------------------------------------------
(* Internal::save_default *)

\* a pixel type is its component's traits and its channel count
Component(C) == C.component

\* save_default_<C, i>: the primary template and its specialisation for
\* i = 1
\* fault variant of save_default_: >= 8 in place of > 8
mutSaveDefaultGE(C, i) ==
    IF i = 1 THEN Component(C).bits_used >= 8 ELSE TRUE
save_default_(C, i) ==
    IF i = 1 THEN Component(C).bits_used > 8 ELSE TRUE

save_default(C) ==
    save_default_(C, IF Component(C).integral THEN 1 ELSE 0)

----------------------------------------------------------------------------
(* Inputs *)

\* stream and file contents: every encoding the writers and a TIFF writer
\* can produce, and short arbitrary byte strings
Encodings(imgs) ==
    {Encoding(x[1], x[2], x[3]) : x \in
        {y \in (Formats \cup {"TIFF"}) \X imgs \X SampleBytes :
            y[3] \in LeadBytes(y[1])}}

InitBufs == SeqsUpTo(SampleBytes, MaxJunkLen) \cup Encodings(Images)

\* what a named file may hold: an encoding of the one-pixel image, nothing,
\* or a single byte
FileContents == SeqsUpTo(SampleBytes, 1) \cup Encodings({<<1>>})

\* the answer of the file system to an open: success, or failure with errno
\* ENOENT or EACCES
Errnos == {2, 13}

\* an open for reading: failure, or a file with some content
ReadOpens ==
    {[ok |-> FALSE, code |-> e, content |-> <<>>] : e \in Errnos}
    \cup {[ok |-> TRUE, code |-> 0, content |-> c] : c \in FileContents}

\* an open for writing, and whether the writer then throws
WriteOpens ==
    {[ok |-> FALSE, code |-> e, throws |-> FALSE] : e \in Errnos}
    \cup {[ok |-> TRUE, code |-> 0, throws |-> b] : b \in BOOLEAN}

\* how a writer may end: completed, or thrown after `written` bytes
WriteAnswers(len) ==
    {[throws |-> FALSE, written |-> len]}
    \cup {[throws |-> TRUE, written |-> k] : k \in 0..(len - 1)}

IosBits == {"eofbit", "failbit", "badbit"}

\* a stream of any kind, in any state, read up to any position; an ifstream
\* that is not open has nothing to read
InitStreams ==
    {s \in [kind : {"ifstream", "stringstream"}, is_open : BOOLEAN,
            buf : InitBufs, pos : 0..4, state : SUBSET IosBits] :
        /\ s.pos <= Len(s.buf)
        /\ s.kind = "stringstream" => s.is_open
        /\ ~s.is_open => s.buf = <<>>}

EmptyStream ==
    [kind |-> "stringstream", is_open |-> TRUE, buf |-> <<>>, pos |-> 0,
     state |-> {}]

\* the streams the combined specification starts from: an empty
\* stringstream, an ifstream whose open failed, one never opened
StartStreams ==
    {EmptyStream,
     [kind |-> "ifstream", is_open |-> FALSE, buf |-> <<>>, pos |-> 0,
      state |-> {"failbit"}],
     [kind |-> "ifstream", is_open |-> FALSE, buf |-> <<>>, pos |-> 0,
      state |-> {}]}

\* '.', the letters of the four suffixes, 'x', and 'J' 'P' 'G'
NameChars == {CharDot, 106, 112, 103, 115, 101, 98, 109, 120, 74, 80, 71}

\* "x", "x.", "x.jpg", "x.JPG", "x.ps", "x.eps", "x.bmp", "x.unknownext",
\* "x.ps.jpg", "x.jpg.d/x"
ExampleNames ==
    {<<120>>, <<120, 46>>, <<120, 46, 106, 112, 103>>, <<120, 46, 74, 80, 71>>,
     <<120, 46, 112, 115>>, <<120, 46, 101, 112, 115>>, <<120, 46, 98, 109, 112>>,
     <<120, 46, 117, 110, 107, 110, 111, 119, 110, 101, 120, 116>>,
     <<120, 46, 112, 115, 46, 106, 112, 103>>,
     <<120, 46, 106, 112, 103, 46, 100, 47, 120>>}

\* "x.eps"
StartNames == {<<120, 46, 101, 112, 115>>}

Names == SeqsUpTo(NameChars, MaxNameLen) \cup ExampleNames

BitsUsedValues == (1..MaxBitsUsed) \cup {32, 64}

PixelTypes ==
    [component : [integral : BOOLEAN, bits_used : BitsUsedValues],
     channels : {1, 3, 4}]

NoCall == [op |-> "none"]
NoName == <<>>
BytePixel == [component |-> [integral |-> TRUE, bits_used |-> 8], channels |-> 1]

----------------------------------------------------------------------------
(* Actions: one per entry point *)

ImgLoadStream ==
    LET r == img_load(im, strm, haveJPEG, haveTIFF) IN
    /\ strm' = r.s
    /\ im' = r.im
    /\ result' = r.res
    /\ log' = r.log
    /\ call' = [op |-> "img_load(stream)", strm |-> strm, im |-> im]
    /\ UNCHANGED <<haveJPEG, haveTIFF, name, saved, pixelType, use_16bit>>

PnmLoad ==
    LET r == pnm_load(im, strm, haveJPEG, haveTIFF) IN
    /\ strm' = r.s
    /\ im' = r.im
    /\ result' = r.res
    /\ log' = r.log
    /\ call' = [op |-> "pnm_load", strm |-> strm, im |-> im]
    /\ UNCHANGED <<haveJPEG, haveTIFF, name, saved, pixelType, use_16bit>>

ImgLoadPath ==
    \E open \in ReadOpens :
        LET r == img_load_path(im, name, open.ok, open.code, open.content,
                               haveJPEG, haveTIFF) IN
        /\ im' = r.im
        /\ result' = r.res
        /\ log' = r.log
        /\ call' = [op |-> "img_load(path)", path |-> name, im |-> im,
                    opened |-> open.ok, code |-> open.code,
                    strm |-> FileStream("ifstream", open.content)]
        /\ UNCHANGED <<haveJPEG, haveTIFF, strm, name, saved, pixelType,
                       use_16bit>>

\* the saves name ImageType::JPEG, an enumerator only of builds with JPEG;
\* an ifstream is no std::ostream
CanSaveTo(s) == haveJPEG /\ s.kind = "stringstream"

Remember(r, t, src, lead) ==
    IF r.res = Returned /\ r.complete
    THEN Append(saved, [at |-> Len(strm.buf), fmt |-> t, img |-> src,
                        lead |-> lead])
    ELSE saved

ImgSaveStream ==
    \E src \in Images, t \in Formats :
    \E lead \in LeadBytes(t), w \in WriteAnswers(3 + Len(src)) :
        LET r == img_save(src, strm, t, lead, w.throws, w.written) IN
        /\ CanSaveTo(strm)
        /\ Len(strm.buf) + 3 + Len(src) <= MaxBufLen
        /\ strm' = r.s
        /\ result' = r.res
        /\ log' = r.log
        /\ saved' = Remember(r, t, src, lead)
        /\ call' = [op |-> "img_save(stream)", strm |-> strm, src |-> src,
                    fmt |-> t]
        /\ UNCHANGED <<haveJPEG, haveTIFF, name, im, pixelType, use_16bit>>

PnmSave ==
    \E src \in Images :
    \E w \in WriteAnswers(3 + Len(src)) :
        LET r == pnm_save(src, strm, CharP, w.throws, w.written) IN
        /\ CanSaveTo(strm)
        /\ Len(strm.buf) + 3 + Len(src) <= MaxBufLen
        /\ strm' = r.s
        /\ result' = r.res
        /\ log' = r.log
        /\ saved' = Remember(r, "PNM", src, CharP)
        /\ call' = [op |-> "pnm_save", strm |-> strm, src |-> src]
        /\ UNCHANGED <<haveJPEG, haveTIFF, name, im, pixelType, use_16bit>>

ImgSavePath ==
    \E t \in Formats, open \in WriteOpens :
    \E lead \in LeadBytes(t) :
        LET r == img_save_path(im, name, t, open.ok, open.code, lead,
                               open.throws, 0) IN
        /\ haveJPEG
        /\ result' = r.res
        /\ log' = r.log
        /\ call' = [op |-> "img_save(path,format)", path |-> name, fmt |-> t,
                    opened |-> open.ok, code |-> open.code]
        /\ UNCHANGED <<haveJPEG, haveTIFF, strm, name, im, saved, pixelType,
                       use_16bit>>

ImgSaveName ==
    \E open \in WriteOpens :
    \E lead \in LeadBytes(formatOfName(name)) :
        LET r == img_save_name(im, name, open.ok, open.code, lead,
                               open.throws, 0) IN
        /\ haveJPEG
        /\ result' = r.res
        /\ log' = r.log
        /\ call' = [op |-> "img_save(path)", path |-> name,
                    opened |-> open.ok, code |-> open.code]
        /\ UNCHANGED <<haveJPEG, haveTIFF, strm, name, im, saved, pixelType,
                       use_16bit>>

Instantiate ==
    /\ use_16bit' = save_default(pixelType)
    /\ call' = [op |-> "save_default"]
    /\ UNCHANGED <<haveJPEG, haveTIFF, strm, name, im, result, log, saved,
                   pixelType>>

----------------------------------------------------------------------------
(* Specifications *)

Quiet ==
    /\ call = NoCall
    /\ result = Returned
    /\ log = <<>>
    /\ saved = <<>>
    /\ use_16bit = FALSE

\* every entry point, on a stream built up by the calls themselves
Init ==
    /\ haveJPEG \in BOOLEAN
    /\ haveTIFF \in BOOLEAN
    /\ strm \in StartStreams
    /\ name \in StartNames
    /\ im = <<>>
    /\ pixelType = BytePixel
    /\ Quiet

Next ==
    \/ ImgLoadStream
    \/ PnmLoad
    \/ ImgLoadPath
    \/ ImgSaveStream
    \/ PnmSave
    \/ ImgSavePath
    \/ ImgSaveName

Spec == Init /\ [][Next]_vars

\* the loads, on every stream
InitLoad ==
    /\ haveJPEG \in BOOLEAN
    /\ haveTIFF \in BOOLEAN
    /\ strm \in InitStreams
    /\ name = NoName
    /\ im \in Images
    /\ pixelType = BytePixel
    /\ Quiet

NextLoad ==
    \/ ImgLoadStream
    \/ PnmLoad

SpecLoad == InitLoad /\ [][NextLoad]_vars

\* the save by name alone, on every name
InitName ==
    /\ haveJPEG = TRUE
    /\ haveTIFF \in BOOLEAN
    /\ strm = EmptyStream
    /\ name \in Names
    /\ im = <<>>
    /\ pixelType = BytePixel
    /\ Quiet

NextName == ImgSaveName

SpecName == InitName /\ [][NextName]_vars

\* save_default, on every pixel type
InitDefault ==
    /\ haveJPEG = TRUE
    /\ haveTIFF = TRUE
    /\ strm = EmptyStream
    /\ name = NoName
    /\ im = <<>>
    /\ pixelType \in PixelTypes
    /\ Quiet

NextDefault == Instantiate

SpecDefault == InitDefault /\ [][NextDefault]_vars

\* the stream entry points alone
NextStream ==
    \/ ImgLoadStream
    \/ PnmLoad
    \/ ImgSaveStream
    \/ PnmSave

SpecStream == Init /\ [][NextStream]_vars

\* the path entry points alone
NextPath ==
    \/ ImgLoadPath
    \/ ImgSavePath
    \/ ImgSaveName

InitPath ==
    /\ haveJPEG \in BOOLEAN
    /\ haveTIFF \in BOOLEAN
    /\ strm = EmptyStream
    /\ name \in ExampleNames
    /\ im \in Images
    /\ pixelType = BytePixel
    /\ Quiet

SpecPath == InitPath /\ [][NextPath]_vars

----------------------------------------------------------------------------
(* Properties *)

StreamLoads == {"img_load(stream)", "pnm_load"}
PathOps == {"img_load(path)", "img_save(path,format)", "img_save(path)"}
DispatchErrors ==
    {"IfstreamNotOpen", "EofBeforeImage", "UnsupportedImageType", "OpenError"}

\* the last call was a load from the caller's stream
Loaded == call.op \in StreamLoads

\* ... which was ready and had a byte to read at entry
LoadedReady ==
    /\ Loaded
    /\ good(call.strm)
    /\ call.strm.pos < Len(call.strm.buf)

FirstByte == call.strm.buf[call.strm.pos + 1]

\* the documented sniffing table
TableReader(c) ==
    CASE c = 80 -> "PNM"
      [] c = 255 /\ haveJPEG -> "JPEG"
      [] c = 73 /\ haveTIFF -> "TIFF"
      [] c = 66 -> "BMP"
      [] OTHER -> "none"

\* C1: on a ready, non-empty stream img_load calls the reader the table
\* gives for the first unread byte ('P' PNM, 0xFF JPEG if compiled in, 'I'
\* TIFF if compiled in, 'B' BMP) and no other; for every other byte it
\* throws UnsupportedImageType and calls no reader.
C1_SniffTable ==
    LoadedReady =>
        IF TableReader(FirstByte) = "none"
        THEN result = Threw(UnsupportedImageType) /\ log = <<>>
        ELSE /\ Len(log) = 1
             /\ log[1].codec = TableReader(FirstByte)
             /\ log[1].op = "read"
             /\ (result.status = "threw" => result.exc.type = "CodecException")

C1_Witness ==
    /\ LoadedReady
    /\ FirstByte = 255
    /\ ~haveJPEG
    /\ result = Threw(UnsupportedImageType)

\* C2: sniffing consumes nothing: the reader is entered at the read
\* position img_load was entered at, and after UnsupportedImageType the
\* stream is as it was.
C2_SniffKeepsPosition ==
    LoadedReady =>
        /\ \A k \in 1..Len(log) : log[k].pos = call.strm.pos
        /\ result = Threw(UnsupportedImageType) => strm = call.strm

C2_Witness ==
    /\ LoadedReady
    /\ call.strm.pos > 0
    /\ Len(log) = 1
    /\ log[1].pos = call.strm.pos
    /\ strm.pos > call.strm.pos

\* C3 as claimed: every stream that is not good at entry gets
\* IfstreamNotOpen.
C3_Original ==
    (Loaded /\ ~good(call.strm)) =>
        /\ result = Threw(IfstreamNotOpen)
        /\ log = <<>>
        /\ strm = call.strm

\* C3, amended: a stream that is not good at entry gets IfstreamNotOpen
\* when it is an ifstream that is not open, and EofBeforeImage otherwise;
\* nothing is peeked, no reader is called, the image is untouched.
C3_NotReady ==
    (Loaded /\ ~good(call.strm)) =>
        /\ result = Threw(IF call.strm.kind = "ifstream" /\ ~call.strm.is_open
                          THEN IfstreamNotOpen
                          ELSE EofBeforeImage)
        /\ log = <<>>
        /\ strm = call.strm
        /\ im = call.im

C3_Witness ==
    /\ Loaded
    /\ call.strm.state = {"eofbit"}
    /\ call.strm.kind = "stringstream"
    /\ result = Threw(EofBeforeImage)

\* C4: a stream that is good but has nothing left to read gets
\* EofBeforeImage: the peek sets eofbit, no reader is called and the
\* image is untouched.
C4_EmptyStream ==
    (Loaded /\ good(call.strm) /\ call.strm.pos = Len(call.strm.buf)) =>
        /\ result = Threw(EofBeforeImage)
        /\ log = <<>>
        /\ im = call.im
        /\ "eofbit" \in strm.state
        /\ strm.pos = call.strm.pos

C4_Witness ==
    /\ Loaded
    /\ good(call.strm)
    /\ call.strm.pos = Len(call.strm.buf)
    /\ call.strm.pos > 0
    /\ im # <<>>
    /\ result = Threw(EofBeforeImage)

\* the documented extension table, on the text after the last '.'
LowerCase(c) == IF c \in 65..90 THEN c + 32 ELSE c

TableFormat(str) ==
    LET dots == {k \in 1..Len(str) : str[k] = 46} IN
    IF dots = {} THEN "PNM"
    ELSE LET d   == CHOOSE k \in dots : \A j \in dots : j <= k
             suf == [k \in 1..(Len(str) - d) |-> LowerCase(str[d + k])] IN
         CASE suf = <<106, 112, 103>> -> "JPEG"
           [] suf = <<112, 115>> -> "PS"
           [] suf = <<101, 112, 115>> -> "EPS"
           [] suf = <<98, 109, 112>> -> "BMP"
           [] OTHER -> "PNM"

\* C5: img_save(im, name) writes with the format of the extension table
\* (text after the last '.', case folded; PNM for no dot, an empty or an
\* unknown suffix), and the suffix never causes an error: the call fails
\* only with OpenError or with the writer's own exception.
C5_ExtensionTable ==
    call.op = "img_save(path)" =>
        /\ call.opened => (Len(log) = 1 /\ log[1].codec = TableFormat(call.path)
                           /\ log[1].op = "write")
        /\ result.status = "threw" =>
               result.exc.type \in {"OpenError", "CodecException"}
        /\ (call.opened /\ log[1].exc = NoException) => result = Returned

C5_Witness ==
    /\ call.op = "img_save(path)"
    /\ call.path = <<120, 46, 74, 80, 71>>
    /\ Len(log) = 1
    /\ log[1].codec = "JPEG"
    /\ result = Returned

ModeOf(op) == IF op = "img_load(path)" THEN "for reading" ELSE "for writing"

\* C6: when the path cannot be opened, the path forms of img_save throw
\* OpenError(path, "for writing", errno) and img_load(im, name) throws
\* OpenError(path, "for reading", errno); no codec is called.
C6_OpenError ==
    (call.op \in PathOps /\ ~call.opened) =>
        /\ result = Threw([type |-> "OpenError", path |-> call.path,
                           why |-> ModeOf(call.op), code |-> call.code])
        /\ call.path = name
        /\ log = <<>>
        /\ call.op = "img_load(path)" => im = call.im

C6_Witness ==
    /\ call.op = "img_save(path)"
    /\ ~call.opened
    /\ call.code = 13
    /\ result.status = "threw"
    /\ result.exc.why = "for writing"

\* the save whose encoding begins where the last load began reading
SavedAtEntry == {k \in 1..Len(saved) : saved[k].at = call.strm.pos}

\* C7 as claimed: whatever format img_save wrote, img_load gives the
\* image back through the matching reader.
C7_Original ==
    (Loaded /\ good(call.strm)) =>
        \A k \in SavedAtEntry :
            /\ result = Returned
            /\ im = saved[k].img
            /\ Len(log) = 1
            /\ log[1].codec = saved[k].fmt

\* C7, amended: the round trip holds for PNM, BMP and JPEG; what was saved
\* as PS or EPS is never handed to a PostScript reader, img_load has none.
C7_RoundTrip ==
    (Loaded /\ good(call.strm)) =>
        \A k \in SavedAtEntry :
            IF saved[k].fmt \in {"PNM", "BMP", "JPEG"}
            THEN /\ result = Returned
                 /\ im = saved[k].img
                 /\ Len(log) = 1
                 /\ log[1].codec = saved[k].fmt
                 /\ log[1].pos = saved[k].at
            ELSE \A j \in 1..Len(log) : log[j].codec \notin {"PS", "EPS"}

C7_Witness ==
    /\ Loaded
    /\ good(call.strm)
    /\ \E k \in SavedAtEntry :
           /\ saved[k].fmt = "BMP"
           /\ saved[k].img = <<1>>
           /\ im = <<1>>
           /\ call.im # <<1>>
           /\ result = Returned

C9_Original ==
    \A k \in 1..Len(log) :
        log[k].exc # NoException =>
            /\ result.status = "threw"
            /\ result.exc.type =
                   (IF log[k].op = "read" THEN "CodecDecodeError"
                    ELSE "CodecEncodeError")
            /\ "format" \in DOMAIN result.exc
            /\ result.exc.format = log[k].codec

\* C9, amended: a codec failure reaches the caller as the very exception
\* the codec raised, with nothing added; it is never swallowed and never
\* turned into one of the dispatch layer's own errors.
C9_CodecFailurePropagates ==
    \A k \in 1..Len(log) :
        log[k].exc # NoException =>
            /\ result = Threw(log[k].exc)
            /\ result.exc.type \notin DispatchErrors

C9_Witness ==
    /\ call.op = "img_load(stream)"
    /\ Len(log) = 1
    /\ log[1].codec = "PNM"
    /\ log[1].exc # NoException
    /\ result = Threw(log[1].exc)

\* C10: a call invokes at most one codec, at most once; a call that
\* returns has invoked exactly one; a call that fails before dispatch
\* has invoked none; after a codec fails nothing more is invoked.
C10_OneCodec ==
    call # NoCall =>
        /\ Len(log) <= 1
        /\ result = Returned => Len(log) = 1
        /\ (result.status = "threw" /\ result.exc.type \in DispatchErrors)
               => log = <<>>
        /\ \A k \in 1..Len(log) : log[k].exc # NoException => k = Len(log)

C10_Witness ==
    /\ call.op = "img_save(path)"
    /\ Len(log) = 1
    /\ log[1].codec = "EPS"
    /\ log[1].exc # NoException
    /\ result.status = "threw"

====
